---- MODULE Spec2Model ----
(***************************************************************************)
(* Credential pool (APIKeyManager) and quota-aware failover caller         *)
(* (chat_with_retry) of backend/gemini_chat.py, as used by the threaded    *)
(* Flask server of backend/server.py: one key_manager object is shared by  *)
(* every request worker. The same workers share one tts_model object       *)
(* (XTTSStreamingTTS of backend/xtts_v2.py): its voice-profile cache and   *)
(* the synthesis engine behind it, driven by the streaming routes.         *)
(***************************************************************************)
EXTENDS Integers, Sequences, FiniteSets, TLC

\* ---- bounds -------------------------------------------------------------
NumProcs == 2        \* concurrent request workers
MaxKeys == 3         \* the credential file holds 0..MaxKeys entries
MaxRetries == 4      \* explicit max_retries arguments are 0..MaxRetries
MaxExtract == 3      \* engine extractions started per reference audio
MaxChunks == 2       \* chunks the engine produces for one text
MaxTextLen == 2      \* characters of a request's text field
MaxReplyLen == 65    \* characters of a generated reply

Procs == 1..NumProcs

None == "None"

\* An optional integer argument: <<>> when omitted (None), <<k>> when given.
NoArg == <<>>
Arg(k) == <<k>>

\* ---- data ---------------------------------------------------------------
\* One entry of api_keys.json: {"name": ..., "key": ...}.
Credential(i) == [name |-> "API_" \o ToString(i), key |-> "key_" \o ToString(i)]

\* _load_api_keys: the list stored under "api_keys" in a file of n entries.
LoadApiKeys(n) == [i \in 1..n |-> Credential(i)]

\* Failures the backend call can raise, by message text.
BackendErrors ==
    { "429 resource has been exhausted (e.g. check quota).",
      "rate limit exceeded",
      "api key not valid" }

\* Exceptions raised by the interpreter on an empty pool.
IndexError == "list index out of range"
ZeroDivisionError == "integer division or modulo by zero"

Reply == "response.text"

\* The words of line 93 that occur as substrings of str(e).lower().
Substrings(msg) ==
    CASE msg = "429 resource has been exhausted (e.g. check quota)."
              -> {"429", "resource", "quota"}
      [] msg = "rate limit exceeded" -> {"rate", "limit"}
      [] OTHER -> {}

\* "w in error_msg"
Contains(msg, w) == w \in Substrings(msg)

\* Mutant of IsQuotaError: every failure is treated as a quota failure.
IsQuotaError_always(msg) == TRUE

\* The classification of line 93.
IsQuotaError(msg) ==
    \/ Contains(msg, "quota")
    \/ Contains(msg, "rate")
    \/ Contains(msg, "limit")
    \/ Contains(msg, "429")
    \/ Contains(msg, "resource")

\* Mutant of NextIndex: the increment is lost.
NextIndex_stuck(idx, n) == idx % n

\* Mutant of NextIndex: the index is not wrapped until it passes n.
NextIndex_nowrap(idx, n) == (idx + 1) % (n + 1)

\* The value rotate_key stores, computed from the index it read.
NextIndex(idx, n) == (idx + 1) % n

\* Mutant of RetryBound: one attempt too many.
RetryBound_plus1(mr, n) == IF mr = NoArg THEN n + 1 ELSE mr[1] + 1

\* Lines 79-80: the number of iterations of the retry loop.
RetryBound(mr, n) == IF mr = NoArg THEN n ELSE mr[1]

\* Mutant of ExhaustedError: the last error is not carried.
ExhaustedError_bare(last) == "all api keys failed. last error: "

\* Line 100: the exception raised when the loop runs out.
ExhaustedError(last) == "all api keys failed. last error: " \o last

\* ---- voice profiles -----------------------------------------------------
\* speaker_wav arguments: two spellings of one file and another file.
Paths == {"ref.wav", "./ref.wav", "other.wav"}

\* xtts_v2.py line 98: os.path.abspath(speaker_wav), the process running in
\* /app.
AbsPath(speaker_wav) ==
    CASE speaker_wav = "ref.wav" -> "/app/ref.wav"
      [] speaker_wav = "./ref.wav" -> "/app/ref.wav"
      [] speaker_wav = "other.wav" -> "/app/other.wav"

Keys == {AbsPath(w) : w \in Paths}

\* (gpt_cond_latent, speaker_embedding) as computed by the n-th extraction
\* from a file: the file may have changed between two extractions.
Latents(file, n) == [src |-> file, gen |-> n]
NoLatents == [src |-> "", gen |-> 0]

\* What self.model.get_conditioning_latents raises on an unusable file.
ExtractError == "error opening reference audio"

\* Mutant of CacheHit: the cache is never consulted.
CacheHit_never(cache, key, use_cache) == FALSE

\* Line 100: use_cache and cache_key in self._speaker_cache.
CacheHit(cache, key, use_cache) == use_cache /\ key \in DOMAIN cache

\* Mutant of AfterExtract: an entry is written even when extraction raised.
AfterExtract_poison(cache, key, use_cache, ok, lat) ==
    IF use_cache
      THEN [k \in DOMAIN cache \cup {key} |-> IF k = key THEN lat ELSE cache[k]]
      ELSE cache

\* Lines 105-111: the cache after the engine call; line 111 is reached
\* only when the call returned.
AfterExtract(cache, key, use_cache, ok, lat) ==
    IF ok /\ use_cache
      THEN [k \in DOMAIN cache \cup {key} |-> IF k = key THEN lat ELSE cache[k]]
      ELSE cache

\* ---- audio framing ------------------------------------------------------
SampleRate == 24000
SampleWidth == 2
Channels == 1
Int16Scale == 32767

\* Waveforms the engine yields: float samples, some outside [-1, 1].
EngineChunks == {<<2, -1>>, <<0>>}

RECURSIVE Flatten(_)
Flatten(items) ==
    IF items = <<>> THEN <<>> ELSE Head(items) \o Flatten(Tail(items))

\* v in n bytes, least significant first.
LE(v, n) == [j \in 1..n |-> (v \div (256 ^ (j - 1))) % 256]

\* postprocess, lines 146-147: np.clip(wav, -1, 1), then
\* (wav * 32767).astype(np.int16).
Postprocess(wav) ==
    [j \in 1..Len(wav) |->
        (IF wav[j] < -1 THEN -1 ELSE IF wav[j] > 1 THEN 1 ELSE wav[j]) * Int16Scale]

\* ndarray.tobytes() of an int16 array: two's complement, little endian.
ToBytes(arr) ==
    Flatten([j \in 1..Len(arr) |-> LE((arr[j] + 65536) % 65536, SampleWidth)])

\* encode_audio_to_wav, lines 169-176: the RIFF/WAVE header the wave module
\* writes for the given frames, followed by the frames.
EncodeAudioToWav(audio_data, sample_rate) ==
    <<82, 73, 70, 70>> \o LE(36 + Len(audio_data), 4) \o <<87, 65, 86, 69>>
      \o <<102, 109, 116, 32>> \o LE(16, 4) \o LE(1, 2) \o LE(Channels, 2)
      \o LE(sample_rate, 4) \o LE(sample_rate * Channels * SampleWidth, 4)
      \o LE(Channels * SampleWidth, 2) \o LE(SampleWidth * 8, 2)
      \o <<100, 97, 116, 97>> \o LE(Len(audio_data), 4) \o audio_data

\* tts_stream lines 219-224: what the loop body yields for chunk number i.
ChunkYields(i, add_wav_header, chunk) ==
    IF i = 0 /\ add_wav_header
      THEN <<EncodeAudioToWav(<<>>, SampleRate), ToBytes(chunk)>>
      ELSE <<ToBytes(chunk)>>

\* ---- requests ----------------------------------------------------------
Chars == {" ", "a"}
Texts == UNION {[1..n -> Chars] : n \in 0..MaxTextLen}

\* What request.get_json() gives the handler: nothing or an empty object
\* (falsy), an object without "text", or an object whose "text" is a string
\* or is not one (null, a number).
NoData == [truthy |-> FALSE, has_text |-> FALSE, is_str |-> FALSE, text |-> <<>>]

RequestData ==
    {NoData,
     [truthy |-> TRUE, has_text |-> FALSE, is_str |-> FALSE, text |-> <<>>],
     [truthy |-> TRUE, has_text |-> TRUE, is_str |-> FALSE, text |-> <<>>]}
      \cup {[truthy |-> TRUE, has_text |-> TRUE, is_str |-> TRUE, text |-> t] :
               t \in Texts}

RECURSIVE LStrip(_)
LStrip(t) == IF t # <<>> /\ Head(t) = " " THEN LStrip(Tail(t)) ELSE t

RECURSIVE RStrip(_)
RStrip(t) ==
    IF t # <<>> /\ t[Len(t)] = " " THEN RStrip(SubSeq(t, 1, Len(t) - 1)) ELSE t

\* Mutant of Strip: the text is taken as sent.
Strip_asis(t) == t

\* str.strip()
Strip(t) == RStrip(LStrip(t))

\* Line 237 / 243 / 284: the error bodies of the handler.
MissingText == "text field required"
EmptyText == "text must not be empty"
AttributeError == "object has no attribute 'strip'"

Min(a, b) == IF a < b THEN a ELSE b
Max(a, b) == IF a > b THEN a ELSE b

\* Mutant of EstimateChunks: the floor of 5 is lost.
EstimateChunks_nofloor(text_length) == text_length \div 10

\* Line 257: max(5, int(text_length / 10)).
EstimateChunks(text_length) == Max(5, text_length \div 10)

\* The speaker_wav every route passes (server.py line 61).
SPEAKER_WAV == "ref.wav"

\* ---- state --------------------------------------------------------------
VARIABLES
    constructed,    \* key_manager = APIKeyManager() has run
    api_keys,       \* APIKeyManager.api_keys
    current_index,  \* APIKeyManager.current_index
    total_keys,     \* APIKeyManager.total_keys
    op,             \* per worker: the call it is in
    pc,             \* per worker: position in that call
    max_retries,    \* chat_with_retry local
    attempt,        \* chat_with_retry loop variable
    last_error,     \* chat_with_retry local
    api_key,        \* chat_with_retry local
    rd,             \* rotate_key: the value of current_index it loaded
    result,         \* per worker: how the call ended
    used,           \* history: credentials of the backend calls of this invocation
    rotations,      \* history: rotate_key calls completed in this call sequence
    lastFail,       \* history: failure of the most recent attempt
    mark,           \* history: current_index when the call sequence began
    given,          \* history: the max_retries argument of the invocation
    solo,           \* history: no other worker was in a call during this one
    speaker_cache,  \* XTTSStreamingTTS._speaker_cache: cache_key -> latents
    engine,         \* the workers that are inside a call of self.model
    gcl,            \* per worker: its get_conditioning_latents call
    extractions,    \* history: per key, engine extractions started
    stored,         \* history: per key, executions of the store of line 111
    serving,        \* server.py has run its module level code (lines 50-65)
    gen,            \* per worker: the tts_stream generator of its response
    req             \* per worker: the streaming request it handles

cacheVars == <<speaker_cache, engine, gcl, extractions, stored>>
streamVars == <<serving, gen, req>>
ttsVars == <<cacheVars, streamVars>>

vars == <<constructed, api_keys, current_index, total_keys, op, pc,
          max_retries, attempt, last_error, api_key, rd, result,
          used, rotations, lastFail, mark, given, solo, ttsVars>>

chatVars == <<constructed, api_keys, current_index, total_keys, op, pc,
              max_retries, attempt, last_error, api_key, rd, result,
              used, rotations, lastFail, mark, given, solo>>

poolVars == <<constructed, api_keys, current_index, total_keys>>
localVars == <<max_retries, attempt, last_error, api_key>>
histVars == <<used, rotations, lastFail, mark, given>>

NoResult == [kind |-> "none", val |-> None]
Returned(v) == [kind |-> "return", val |-> v]
Raised(e) == [kind |-> "raise", val |-> e]

\* A get_conditioning_latents call: position, cache_key, use_cache, the
\* ordinal of its engine extraction, what the engine did, and how it ended.
GclIdle ==
    [pc |-> "idle", key |-> "", use_cache |-> TRUE, n |-> 0, out |-> "none",
     kind |-> "none", val |-> NoLatents, err |-> None]

\* A tts_stream generator: where it stands, the enumerate index and the
\* post-processed chunk at hand, and as history the next() calls made on
\* the engine's chunk iterator, the waveforms it produced and the byte
\* strings yielded.
NoGen ==
    [pc |-> "none", i |-> 0, chunk |-> <<>>, add_wav_header |-> TRUE,
     pulls |-> 0, produced |-> <<>>, out |-> <<>>]

\* A request of a streaming route and its response: status 0 until the
\* handler returns; sent counts the yielded items written to the client,
\* late the pulls from the engine begun after the client had gone.
NoReq ==
    [stage |-> "idle", route |-> None, data |-> NoData, user_text |-> <<>>,
     status |-> 0, error |-> None, text_length |-> 0, estimated_chunks |-> 0,
     x_ai_response |-> <<>>,
     x_estimated_chunks |-> "", chunk_count |-> 0, sent |-> 0,
     client |-> "connected", late |-> 0]

Init ==
    /\ constructed = FALSE
    /\ api_keys = <<>>
    /\ current_index = 0
    /\ total_keys = 0
    /\ op = [p \in Procs |-> None]
    /\ pc = [p \in Procs |-> "idle"]
    /\ max_retries = [p \in Procs |-> 0]
    /\ attempt = [p \in Procs |-> 0]
    /\ last_error = [p \in Procs |-> None]
    /\ api_key = [p \in Procs |-> None]
    /\ rd = [p \in Procs |-> 0]
    /\ result = [p \in Procs |-> NoResult]
    /\ used = [p \in Procs |-> <<>>]
    /\ rotations = [p \in Procs |-> 0]
    /\ lastFail = [p \in Procs |-> None]
    /\ mark = [p \in Procs |-> 0]
    /\ given = [p \in Procs |-> NoArg]
    /\ solo = [p \in Procs |-> TRUE]
    /\ speaker_cache = <<>>
    /\ engine = {}
    /\ gcl = [p \in Procs |-> GclIdle]
    /\ extractions = [k \in Keys |-> 0]
    /\ stored = [k \in Keys |-> 0]
    /\ serving = FALSE
    /\ gen = [p \in Procs |-> NoGen]
    /\ req = [p \in Procs |-> NoReq]

\* APIKeyManager.__init__ on a credential file of n entries.
Construct(n) ==
    /\ ~constructed
    /\ constructed' = TRUE
    /\ api_keys' = LoadApiKeys(n)
    /\ current_index' = 0
    /\ total_keys' = Len(LoadApiKeys(n))
    /\ UNCHANGED <<op, pc, localVars, rd, result, histVars, solo>>
    /\ UNCHANGED ttsVars

\* ---- chat_with_retry ----------------------------------------------------
Free(p) == constructed /\ pc[p] \in {"idle", "done"}

\* Worker p enters a call: it is alone iff every other worker is outside one,
\* and the workers inside one are no longer alone.
Enter(p) ==
    solo' = [q \in Procs |->
               IF q = p THEN \A r \in Procs \ {p} : pc[r] \in {"idle", "done"}
               ELSE IF pc[q] \in {"idle", "done"} THEN solo[q] ELSE FALSE]

\* Line 82 and line 100: enter iteration a of the loop, or run out.
LoopHead(p, a, bound, last) ==
    /\ attempt' = [attempt EXCEPT ![p] = a]
    /\ IF a < bound
         THEN /\ pc' = [pc EXCEPT ![p] = "get_key"]
              /\ result' = [result EXCEPT ![p] = NoResult]
         ELSE /\ pc' = [pc EXCEPT ![p] = "done"]
              /\ result' = [result EXCEPT ![p] = Raised(ExhaustedError(last))]

\* Lines 74-82: a request worker calls chat_with_retry(key_manager, ..., mr).
Invoke(p, mr) ==
    /\ Free(p)
    /\ op' = [op EXCEPT ![p] = "chat_with_retry"]
    /\ last_error' = [last_error EXCEPT ![p] = None]
    /\ max_retries' = [max_retries EXCEPT ![p] = RetryBound(mr, total_keys)]
    /\ LoopHead(p, 0, RetryBound(mr, total_keys), None)
    /\ api_key' = [api_key EXCEPT ![p] = None]
    /\ used' = [used EXCEPT ![p] = <<>>]
    /\ rotations' = [rotations EXCEPT ![p] = 0]
    /\ lastFail' = [lastFail EXCEPT ![p] = None]
    /\ given' = [given EXCEPT ![p] = mr]
    /\ Enter(p)
    /\ UNCHANGED <<poolVars, rd, mark>>
    /\ UNCHANGED ttsVars

\* Lines 88-98: the except clause for exception e. The print of line 94
\* only reads the pool; the rotate_key call of line 95 is RotRead, RotWrite.
Except(p, e) ==
    /\ last_error' = [last_error EXCEPT ![p] = e]
    /\ lastFail' = [lastFail EXCEPT ![p] = e]
    /\ IF IsQuotaError(e)
         THEN /\ pc' = [pc EXCEPT ![p] = "rot_read"]
              /\ UNCHANGED result
         ELSE /\ pc' = [pc EXCEPT ![p] = "done"]
              /\ result' = [result EXCEPT ![p] = Raised(e)]

\* Line 84 (and line 22): api_key = key_manager.get_current_key().
GetKey(p) ==
    /\ pc[p] = "get_key"
    /\ IF current_index < Len(api_keys)
         THEN /\ api_key' = [api_key EXCEPT ![p] = api_keys[current_index + 1].key]
              /\ pc' = [pc EXCEPT ![p] = "call"]
              /\ UNCHANGED <<last_error, lastFail, result>>
         ELSE /\ Except(p, IndexError)
              /\ UNCHANGED api_key
    /\ UNCHANGED <<poolVars, op, max_retries, attempt, rd, used, rotations,
                   mark, given, solo>>
    /\ UNCHANGED ttsVars

\* Mutant of Call: the pool is rotated after a success too.
Call_rotates(p, out) ==
    /\ pc[p] = "call"
    /\ used' = [used EXCEPT ![p] = Append(@, api_key[p])]
    /\ IF out = Reply
         THEN /\ pc' = [pc EXCEPT ![p] = "done"]
              /\ result' = [result EXCEPT ![p] = Returned(out)]
              /\ current_index' = NextIndex(current_index, total_keys)
              /\ UNCHANGED <<last_error, lastFail>>
         ELSE /\ Except(p, out)
              /\ UNCHANGED current_index
    /\ UNCHANGED <<constructed, api_keys, total_keys, op, max_retries, attempt,
                   api_key, rd, rotations, mark, given, solo>>
    /\ UNCHANGED ttsVars

\* Lines 85-87: the backend call made with api_key answers with out. The
\* attempt is attributed to the key this worker read at line 84 and passed
\* to create_gemini_model.
Call(p, out) ==
    /\ pc[p] = "call"
    /\ used' = [used EXCEPT ![p] = Append(@, api_key[p])]
    /\ IF out = Reply
         THEN /\ pc' = [pc EXCEPT ![p] = "done"]
              /\ result' = [result EXCEPT ![p] = Returned(out)]
              /\ UNCHANGED <<last_error, lastFail>>
         ELSE Except(p, out)
    /\ UNCHANGED <<poolVars, op, max_retries, attempt, api_key, rd, rotations,
                   mark, given, solo>>
    /\ UNCHANGED ttsVars

\* ---- rotate_key ---------------------------------------------------------
\* Line 30, first half: load self.current_index.
RotRead(p) ==
    /\ pc[p] = "rot_read"
    /\ rd' = [rd EXCEPT ![p] = current_index]
    /\ pc' = [pc EXCEPT ![p] = "rot_write"]
    /\ UNCHANGED <<poolVars, op, localVars, result, histVars, solo>>
    /\ UNCHANGED ttsVars

\* Line 30, second half: store (loaded + 1) % total_keys; then the caller
\* goes on (line 82 in chat_with_retry, return None for a direct call).
RotWrite(p) ==
    /\ pc[p] = "rot_write"
    /\ IF total_keys = 0
         THEN /\ pc' = [pc EXCEPT ![p] = "done"]
              /\ result' = [result EXCEPT ![p] = Raised(ZeroDivisionError)]
              /\ UNCHANGED <<current_index, rotations, attempt>>
         ELSE /\ current_index' = NextIndex(rd[p], total_keys)
              /\ rotations' = [rotations EXCEPT ![p] = @ + 1]
              /\ IF op[p] = "chat_with_retry"
                   THEN LoopHead(p, attempt[p] + 1, max_retries[p], last_error[p])
                   ELSE /\ pc' = [pc EXCEPT ![p] = "done"]
                        /\ result' = [result EXCEPT ![p] = Returned(None)]
                        /\ UNCHANGED attempt
    /\ rd' = [rd EXCEPT ![p] = 0]
    /\ UNCHANGED <<constructed, api_keys, total_keys, op, max_retries,
                   last_error, api_key, used, lastFail, mark, given, solo>>
    /\ UNCHANGED ttsVars

\* A direct call of key_manager.rotate_key(); fresh starts a new run of
\* consecutive calls.
CallRotateKey(p, fresh) ==
    /\ Free(p)
    /\ fresh \/ (op[p] = "rotate_key" /\ rotations[p] < total_keys)
    /\ op' = [op EXCEPT ![p] = "rotate_key"]
    /\ pc' = [pc EXCEPT ![p] = "rot_read"]
    /\ result' = [result EXCEPT ![p] = NoResult]
    /\ IF fresh
         THEN /\ mark' = [mark EXCEPT ![p] = current_index]
              /\ rotations' = [rotations EXCEPT ![p] = 0]
         ELSE UNCHANGED <<mark, rotations>>
    /\ used' = [used EXCEPT ![p] = <<>>]
    /\ lastFail' = [lastFail EXCEPT ![p] = None]
    /\ given' = [given EXCEPT ![p] = NoArg]
    /\ max_retries' = [max_retries EXCEPT ![p] = 0]
    /\ attempt' = [attempt EXCEPT ![p] = 0]
    /\ last_error' = [last_error EXCEPT ![p] = None]
    /\ api_key' = [api_key EXCEPT ![p] = None]
    /\ Enter(p)
    /\ UNCHANGED <<poolVars, rd>>
    /\ UNCHANGED ttsVars

\* self.api_keys[self.current_index][field], as a call result.
Lookup(field) ==
    IF current_index < Len(api_keys)
      THEN Returned(api_keys[current_index + 1][field])
      ELSE Raised(IndexError)

\* A direct call of method m, which returns the given field of the current
\* credential in one step.
CallReader(p, m, field) ==
    /\ Free(p)
    /\ op' = [op EXCEPT ![p] = m]
    /\ pc' = [pc EXCEPT ![p] = "done"]
    /\ result' = [result EXCEPT ![p] = Lookup(field)]
    /\ Enter(p)
    /\ UNCHANGED <<poolVars, localVars, rd, histVars>>
    /\ UNCHANGED ttsVars

\* Lines 20-22.
CallGetCurrentKey(p) == CallReader(p, "get_current_key", "key")

\* Lines 24-26.
CallGetCurrentKeyName(p) == CallReader(p, "get_current_key_name", "name")

\* Lines 33-35.
CallGetKeyWithRetry(p) == CallReader(p, "get_key_with_retry", "key")

\* ---- specifications -----------------------------------------------------
Retries == {NoArg} \cup {Arg(k) : k \in 0..MaxRetries}
Outcomes == {Reply} \cup BackendErrors

Step(p) ==
    \/ GetKey(p)
    \/ \E out \in Outcomes : Call(p, out)
    \/ RotRead(p)
    \/ RotWrite(p)

\* The server: concurrent request workers share key_manager; every route
\* calls chat_with_retry without max_retries (server.py lines 132, 187, 249).
Next ==
    \/ \E n \in 0..MaxKeys : Construct(n)
    \/ \E p \in Procs : Invoke(p, NoArg)
    \/ \E p \in Procs : Step(p)

Spec == Init /\ [][Next]_vars

\* One worker at a time, as in the console loop of main(): no concurrent
\* invocation; max_retries is omitted or given.
NextSeq ==
    \/ \E n \in 0..MaxKeys : Construct(n)
    \/ \E mr \in Retries : Invoke(1, mr)
    \/ Step(1)

SpecSeq == Init /\ [][NextSeq]_vars

\* The worker is scheduled and the backend answers every call.
SpecSeqFair == SpecSeq /\ WF_vars(Step(1))

\* One thread driving the pool's methods directly.
NextPool ==
    \/ \E n \in 0..MaxKeys : Construct(n)
    \/ \E fresh \in BOOLEAN : CallRotateKey(1, fresh)
    \/ CallGetCurrentKey(1)
    \/ CallGetCurrentKeyName(1)
    \/ CallGetKeyWithRetry(1)
    \/ RotRead(1)
    \/ RotWrite(1)

SpecPool == Init /\ [][NextPool]_vars

TypeOK ==
    /\ current_index \in 0..MaxKeys
    /\ total_keys = Len(api_keys)
    /\ \A p \in Procs : pc[p] \in {"idle", "get_key", "call", "rot_read", "rot_write", "done"}

\* ---- get_conditioning_latents -------------------------------------------
\* xtts_v2.py lines 98-106: the key is computed and looked up; on a hit the
\* stored pair is returned, on a miss the worker enters the engine.
GetConditioningLatents(p, speaker_wav, use_cache) ==
    LET key == AbsPath(speaker_wav) IN
    /\ CacheHit(speaker_cache, key, use_cache) \/ extractions[key] < MaxExtract
    /\ IF CacheHit(speaker_cache, key, use_cache)
         THEN /\ gcl' = [gcl EXCEPT ![p] =
                          [pc |-> "done", key |-> key, use_cache |-> use_cache,
                           n |-> 0, out |-> "none", kind |-> "return",
                           val |-> speaker_cache[key], err |-> None]]
              /\ UNCHANGED <<engine, extractions>>
         ELSE /\ gcl' = [gcl EXCEPT ![p] =
                          [pc |-> "extract", key |-> key, use_cache |-> use_cache,
                           n |-> extractions[key] + 1, out |-> "none",
                           kind |-> "none", val |-> NoLatents, err |-> None]]
              /\ engine' = engine \cup {p}
              /\ extractions' = [extractions EXCEPT ![key] = @ + 1]
    /\ UNCHANGED <<speaker_cache, stored>>

\* A direct call of tts_model.get_conditioning_latents(speaker_wav, use_cache).
CallGetConditioningLatents(p, speaker_wav, use_cache) ==
    /\ gcl[p].pc \in {"idle", "done"}
    /\ GetConditioningLatents(p, speaker_wav, use_cache)
    /\ UNCHANGED <<chatVars, streamVars>>

\* Lines 106-113: the engine call returns the pair (ok) or raises; the pair
\* is stored when caching is on, and returned.
ExtractEnd(p, ok) ==
    LET c == gcl[p]
        lat == Latents(c.key, c.n) IN
    /\ c.pc = "extract"
    /\ engine' = engine \ {p}
    /\ speaker_cache' = AfterExtract(speaker_cache, c.key, c.use_cache, ok, lat)
    /\ stored' = [stored EXCEPT ![c.key] = IF ok /\ c.use_cache THEN @ + 1 ELSE @]
    /\ gcl' = [gcl EXCEPT ![p] =
                 IF ok
                   THEN [c EXCEPT !.pc = "done", !.out = "ok",
                                  !.kind = "return", !.val = lat]
                   ELSE [c EXCEPT !.pc = "done", !.out = "fail",
                                  !.kind = "raise", !.err = ExtractError]]
    /\ UNCHANGED extractions
    /\ UNCHANGED <<chatVars, streamVars>>

\* Request workers calling get_conditioning_latents on the shared tts_model.
NextCache ==
    \/ \E p \in Procs, w \in Paths, u \in BOOLEAN :
           CallGetConditioningLatents(p, w, u)
    \/ \E p \in Procs, ok \in BOOLEAN : ExtractEnd(p, ok)

SpecCache == Init /\ [][NextCache]_vars

\* One caller at a time.
NextCacheSeq ==
    \/ \E w \in Paths, u \in BOOLEAN : CallGetConditioningLatents(1, w, u)
    \/ \E ok \in BOOLEAN : ExtractEnd(1, ok)

SpecCacheSeq == Init /\ [][NextCacheSeq]_vars

\* ---- streaming routes ---------------------------------------------------
ChatStream == "/api/chat/stream"
TtsStream == "/api/tts/stream"

\* server.py lines 56-65: tts_model is created and the features of
\* SPEAKER_WAV are computed and cached before the first request is served.
LoadSpeaker ==
    LET key == AbsPath(SPEAKER_WAV) IN
    /\ constructed /\ ~serving
    /\ serving' = TRUE
    /\ speaker_cache' = AfterExtract(speaker_cache, key, TRUE, TRUE,
                                     Latents(key, extractions[key] + 1))
    /\ extractions' = [extractions EXCEPT ![key] = @ + 1]
    /\ stored' = [stored EXCEPT ![key] = @ + 1]
    /\ UNCHANGED <<engine, gcl, gen, req, chatVars>>

\* Lines 234-243 (and 302-311): how the handler leaves its input checks;
\* status 0 means it goes on. A "text" that is not a string raises at
\* .strip() and ends in the except clause of line 282 (328).
Validate(data) ==
    IF ~data.truthy \/ ~data.has_text
      THEN [status |-> 400, error |-> MissingText, user_text |-> <<>>]
    ELSE IF ~data.is_str
      THEN [status |-> 500, error |-> AttributeError, user_text |-> <<>>]
    ELSE IF Strip(data.text) = <<>>
      THEN [status |-> 400, error |-> EmptyText, user_text |-> <<>>]
    ELSE [status |-> 0, error |-> None, user_text |-> Strip(data.text)]

\* A request for route arrives at a worker that handles none, with fresh
\* locals, and passes or fails the input checks.
Receive(p, route, data) ==
    LET v == Validate(data) IN
    /\ serving
    /\ pc[p] \in {"idle", "done"}
    /\ req[p].stage \in {"idle", "completed", "failed", "aborted", "cancelled"}
    /\ req' = [req EXCEPT ![p] =
                 [NoReq EXCEPT !.route = route, !.data = data,
                               !.user_text = v.user_text,
                               !.status = v.status, !.error = v.error,
                               !.stage = IF v.status # 0 THEN "failed"
                                         ELSE IF route = ChatStream
                                           THEN "generating" ELSE "ready"]]
    /\ gen' = [gen EXCEPT ![p] = NoGen]
    /\ gcl' = [gcl EXCEPT ![p] = GclIdle]
    /\ op' = [op EXCEPT ![p] = None]
    /\ pc' = [pc EXCEPT ![p] = "idle"]
    /\ result' = [result EXCEPT ![p] = NoResult]
    /\ max_retries' = [max_retries EXCEPT ![p] = 0]
    /\ attempt' = [attempt EXCEPT ![p] = 0]
    /\ last_error' = [last_error EXCEPT ![p] = None]
    /\ api_key' = [api_key EXCEPT ![p] = None]
    /\ used' = [used EXCEPT ![p] = <<>>]
    /\ rotations' = [rotations EXCEPT ![p] = 0]
    /\ lastFail' = [lastFail EXCEPT ![p] = None]
    /\ UNCHANGED <<poolVars, rd, mark, given, solo, speaker_cache, engine,
                   extractions, stored, serving>>

\* Line 249: ai_response = chat_with_retry(key_manager, config, user_text).
ChatInvoke(p) ==
    /\ req[p].stage = "generating"
    /\ pc[p] = "idle"
    /\ Invoke(p, NoArg)

\* Mutant of RespondError: a response stream is opened although text
\* generation failed.
RespondError_stream(p) ==
    /\ req[p].stage = "generating" /\ pc[p] = "done"
    /\ result[p].kind = "raise"
    /\ req' = [req EXCEPT ![p].stage = "streaming", ![p].status = 200]
    /\ gen' = [gen EXCEPT ![p] = [NoGen EXCEPT !.pc = "new"]]
    /\ UNCHANGED <<chatVars, cacheVars, serving>>

\* Lines 282-284: chat_with_retry raised; the handler answers 500 with the
\* error text.
RespondError(p) ==
    /\ req[p].stage = "generating" /\ pc[p] = "done"
    /\ result[p].kind = "raise"
    /\ req' = [req EXCEPT ![p].stage = "failed", ![p].status = 500,
                          ![p].error = result[p].val]
    /\ UNCHANGED <<chatVars, cacheVars, serving, gen>>

\* Mutant of RespondChat: the stream is handed over before status and
\* headers are set.
RespondChat_noheaders(p, n) ==
    /\ req[p].stage = "generating" /\ pc[p] = "done"
    /\ result[p].kind = "return"
    /\ req' = [req EXCEPT ![p].stage = "streaming", ![p].text_length = n,
                          ![p].data = NoData, ![p].user_text = <<>>]
    /\ gen' = [gen EXCEPT ![p] = [NoGen EXCEPT !.pc = "new"]]
    /\ UNCHANGED <<chatVars, cacheVars, serving>>

\* Lines 249-280: chat_with_retry returned a reply of n characters; the
\* handler computes the estimate and returns Response(generate(), ...)
\* with its headers; its locals data and user_text are gone. generate()
\* has not run a line yet.
RespondChat(p, n) ==
    /\ req[p].stage = "generating" /\ pc[p] = "done"
    /\ result[p].kind = "return"
    /\ req' = [req EXCEPT ![p].stage = "streaming", ![p].status = 200,
                          ![p].data = NoData, ![p].user_text = <<>>,
                          ![p].text_length = n,
                          ![p].estimated_chunks = EstimateChunks(n),
                          ![p].x_ai_response = <<result[p].val, Min(n, 200)>>,
                          ![p].x_estimated_chunks = ToString(EstimateChunks(n))]
    /\ gen' = [gen EXCEPT ![p] = [NoGen EXCEPT !.pc = "new"]]
    /\ UNCHANGED <<chatVars, cacheVars, serving>>

\* Lines 313-326: the handler of /api/tts/stream returns
\* Response(generate(), mimetype="audio/wav").
RespondTts(p) ==
    /\ req[p].stage = "ready"
    /\ req' = [req EXCEPT ![p].stage = "streaming", ![p].status = 200,
                          ![p].data = NoData, ![p].user_text = <<>>]
    /\ gen' = [gen EXCEPT ![p] = [NoGen EXCEPT !.pc = "new"]]
    /\ UNCHANGED <<chatVars, cacheVars, serving>>

\* ---- tts_stream ---------------------------------------------------------
\* An item the generator yielded has not been written to the client yet.
Writable(p) == req[p].sent < Len(gen[p].out)

\* generate() passes an item on; the one of /api/chat/stream counts it
\* (line 267).
Counted(r) ==
    IF r.route = ChatStream THEN [r EXCEPT !.chunk_count = @ + 1] ELSE r

\* A next() on the engine's chunk iterator begins.
Pulling(r) ==
    IF r.client = "gone" THEN [r EXCEPT !.late = @ + 1] ELSE r

\* The server asks the response for its first item: generate() enters
\* generate_speech_streaming and tts_stream, which runs line 204.
StartStream(p) ==
    /\ req[p].stage = "streaming" /\ gen[p].pc = "new"
    /\ GetConditioningLatents(p, SPEAKER_WAV, TRUE)
    /\ gen' = [gen EXCEPT ![p].pc = "gcl"]
    /\ UNCHANGED <<chatVars, serving, req>>

\* Lines 204-216: get_conditioning_latents is back; its exception leaves
\* the generator, its pair goes to self.model.inference_stream and the for
\* loop asks the engine for the first chunk.
GclReturn(p) ==
    /\ gen[p].pc = "gcl" /\ gcl[p].pc = "done"
    /\ IF gcl[p].kind = "raise"
         THEN /\ gen' = [gen EXCEPT ![p].pc = "raised"]
              /\ req' = [req EXCEPT ![p].stage = "aborted"]
              /\ UNCHANGED engine
         ELSE /\ gen' = [gen EXCEPT ![p].pc = "infer", ![p].pulls = @ + 1]
              /\ req' = [req EXCEPT ![p] = Pulling(@)]
              /\ engine' = engine \cup {p}
    /\ UNCHANGED <<chatVars, speaker_cache, gcl, extractions, stored, serving>>

\* Lines 216-224: the engine yields the waveform wav; it is post-processed
\* and the loop body yields its first item for it.
Produce(p, wav) ==
    LET g == gen[p]
        chunk == Postprocess(wav)
        ys == ChunkYields(g.i, g.add_wav_header, chunk) IN
    /\ g.pc = "infer" /\ g.i < MaxChunks
    /\ engine' = engine \ {p}
    /\ gen' = [gen EXCEPT ![p] =
                 [g EXCEPT !.pc = IF Len(ys) = 2 THEN "hdr" ELSE "body",
                           !.chunk = IF Len(ys) = 2 THEN chunk ELSE <<>>,
                           !.produced = Append(@, wav),
                           !.out = Append(@, ys[1])]]
    /\ req' = [req EXCEPT ![p] = Counted(@)]
    /\ UNCHANGED <<chatVars, speaker_cache, gcl, extractions, stored, serving>>

\* Line 222: resumed after the header, the generator yields the chunk.
ResumeHeader(p) ==
    LET g == gen[p] IN
    /\ req[p].stage = "streaming" /\ g.pc = "hdr" /\ ~Writable(p)
    /\ gen' = [gen EXCEPT ![p] =
                 [g EXCEPT !.pc = "body", !.chunk = <<>>,
                           !.out = Append(@, ChunkYields(g.i, g.add_wav_header,
                                                         g.chunk)[2])]]
    /\ req' = [req EXCEPT ![p] = Counted(@)]
    /\ UNCHANGED <<chatVars, cacheVars, serving>>

\* Mutant of NextChunk: the loop runs ahead of the client write.
NextChunk_eager(p) ==
    /\ req[p].stage = "streaming" /\ gen[p].pc = "body"
    /\ gen' = [gen EXCEPT ![p].pc = "infer", ![p].i = @ + 1, ![p].pulls = @ + 1]
    /\ req' = [req EXCEPT ![p] = Pulling(@)]
    /\ engine' = engine \cup {p}
    /\ UNCHANGED <<chatVars, speaker_cache, gcl, extractions, stored, serving>>

\* Line 216: resumed after a chunk, the loop asks the engine for the next.
NextChunk(p) ==
    /\ req[p].stage = "streaming" /\ gen[p].pc = "body" /\ ~Writable(p)
    /\ gen' = [gen EXCEPT ![p].pc = "infer", ![p].i = @ + 1, ![p].pulls = @ + 1]
    /\ req' = [req EXCEPT ![p] = Pulling(@)]
    /\ engine' = engine \cup {p}
    /\ UNCHANGED <<chatVars, speaker_cache, gcl, extractions, stored, serving>>

\* The engine's iterator is exhausted: tts_stream returns (line 226),
\* generate() returns and the response is complete.
Exhaust(p) ==
    /\ gen[p].pc = "infer"
    /\ engine' = engine \ {p}
    /\ gen' = [gen EXCEPT ![p].pc = "end"]
    /\ req' = [req EXCEPT ![p].stage = "completed"]
    /\ UNCHANGED <<chatVars, speaker_cache, gcl, extractions, stored, serving>>

\* Mutant of InferFail: an error body is put into the stream.
InferFail_errbody(p) ==
    /\ gen[p].pc = "infer"
    /\ engine' = engine \ {p}
    /\ gen' = [gen EXCEPT ![p].pc = "raised",
                          ![p].out = Append(@, <<123, 125>>)]
    /\ req' = [req EXCEPT ![p].stage = "aborted", ![p].sent = @ + 1]
    /\ UNCHANGED <<chatVars, speaker_cache, gcl, extractions, stored, serving>>

\* The engine raises inside inference_stream: the exception leaves the
\* generators after the handler has returned.
InferFail(p) ==
    /\ gen[p].pc = "infer"
    /\ engine' = engine \ {p}
    /\ gen' = [gen EXCEPT ![p].pc = "raised"]
    /\ req' = [req EXCEPT ![p].stage = "aborted"]
    /\ UNCHANGED <<chatVars, speaker_cache, gcl, extractions, stored, serving>>

\* Mutant of Write: a failed write is ignored and the iteration goes on.
Write_ignore(p) ==
    /\ req[p].stage = "streaming" /\ Writable(p)
    /\ req' = [req EXCEPT ![p].sent = @ + 1]
    /\ UNCHANGED <<chatVars, cacheVars, serving, gen>>

\* The server writes the item it was given to the client. A write to a
\* client that has gone fails, and the server closes the response
\* iterator: GeneratorExit ends generate() and tts_stream at their yield.
Write(p) ==
    /\ req[p].stage = "streaming" /\ Writable(p)
    /\ IF req[p].client = "connected"
         THEN /\ req' = [req EXCEPT ![p].sent = @ + 1]
              /\ UNCHANGED gen
         ELSE /\ req' = [req EXCEPT ![p].stage = "cancelled"]
              /\ gen' = [gen EXCEPT ![p].pc = "closed", ![p].chunk = <<>>]
    /\ UNCHANGED <<chatVars, cacheVars, serving>>

\* The client of a response that is being streamed goes away.
Disconnect(p) ==
    /\ req[p].stage = "streaming" /\ req[p].client = "connected"
    /\ req' = [req EXCEPT ![p].client = "gone"]
    /\ UNCHANGED <<chatVars, cacheVars, serving, gen>>

StreamStep(p) ==
    \/ StartStream(p)
    \/ GclReturn(p)
    \/ \E wav \in EngineChunks : Produce(p, wav)
    \/ ResumeHeader(p)
    \/ NextChunk(p)
    \/ Exhaust(p)
    \/ InferFail(p)
    \/ Write(p)
    \/ Disconnect(p)

\* The server on /api/tts/stream: concurrent request workers drive the one
\* tts_model.
NextTts ==
    \/ Construct(MaxKeys)
    \/ LoadSpeaker
    \/ \E p \in Procs, data \in RequestData : Receive(p, TtsStream, data)
    \/ \E p \in Procs : RespondTts(p)
    \/ \E p \in Procs : StreamStep(p)

SpecTts == Init /\ [][NextTts]_vars

\* One request at a time on /api/chat/stream.
NextChatStream ==
    \/ \E n \in 0..MaxKeys : Construct(n)
    \/ LoadSpeaker
    \/ \E data \in RequestData : Receive(1, ChatStream, data)
    \/ ChatInvoke(1)
    \/ Step(1)
    \/ RespondError(1)
    \/ \E n \in 0..MaxReplyLen : RespondChat(1, n)
    \/ StreamStep(1)

SpecChatStream == Init /\ [][NextChatStream]_vars

\* The steps of the worker, the backend, the engine and the server's write
\* loop for the request of worker p.
Progress(p) ==
    \/ ChatInvoke(p)
    \/ Step(p)
    \/ RespondError(p)
    \/ \E n \in 0..MaxReplyLen : RespondChat(p, n)
    \/ StartStream(p)
    \/ GclReturn(p)
    \/ \E wav \in EngineChunks : Produce(p, wav)
    \/ ResumeHeader(p)
    \/ NextChunk(p)
    \/ Exhaust(p)
    \/ InferFail(p)
    \/ Write(p)

\* The worker is scheduled, the backend and the engine answer every call
\* and the server keeps writing.
SpecChatStreamFair == SpecChatStream /\ WF_vars(Progress(1))

\* ---- properties ---------------------------------------------------------
InChat(p) == op[p] = "chat_with_retry"
ChatDone(p) == InChat(p) /\ pc[p] = "done"

\* The keys of the pool and the position of a key.
PoolKeys == {api_keys[i].key : i \in 1..Len(api_keys)}
KeyPos(k) == CHOOSE i \in 1..Len(api_keys) : api_keys[i].key = k
CurrentKey == api_keys[current_index + 1].key

\* N of the invocation, from its argument: the pool size unless overridden.
BoundN(p) == IF given[p] = NoArg THEN Len(api_keys) ELSE given[p][1]

\* A failure carrying rate/quota/resource-exhaustion signalling.
QuotaSignals == {"quota", "rate", "limit", "429", "resource"}
QuotaClass(e) == Substrings(e) \cap QuotaSignals # {}

\* Within one invocation no credential is used a second time before every
\* other credential of the pool has been used.
NoEarlyRepeat(p) ==
    \A i, j \in 1..Len(used[p]) :
        (i < j /\ used[p][i] = used[p][j])
            => PoolKeys \subseteq {used[p][k] : k \in 1..(j - 1)}

\* C1 as stated: under any interleaving with concurrent invocations, an
\* invocation never repeats a credential before all others have been used.
C1_NoEarlyRepeatConcurrent ==
    \A p \in Procs : InChat(p) => NoEarlyRepeat(p)

\* C1 amended: an invocation that no other call overlaps never repeats a
\* credential before all others have been used.
C1_NoEarlyRepeatSolo ==
    \A p \in Procs : (InChat(p) /\ solo[p]) => NoEarlyRepeat(p)

\* C1 witness: an undisturbed invocation that went round the whole pool.
C1_Witness ==
    \E p \in Procs :
        /\ InChat(p) /\ solo[p]
        /\ Len(api_keys) = 3
        /\ Len(used[p]) = 3
        /\ {used[p][k] : k \in 1..3} = PoolKeys

\* C3: once an attempt has failed with a non-quota failure the invocation
\* is over with that very error, and that attempt did not rotate: the
\* rotations made are those of the earlier attempts only.
C3_NonQuotaAborts ==
    \A p \in Procs :
        (InChat(p) /\ lastFail[p] # None /\ ~QuotaClass(lastFail[p]))
            => /\ pc[p] = "done"
               /\ result[p] = Raised(lastFail[p])
               /\ rotations[p] = attempt[p]
               /\ Len(used[p]) <= attempt[p] + 1

\* C3 witness: the second attempt failed with a non-quota failure.
C3_Witness ==
    \E p \in Procs :
        /\ ChatDone(p)
        /\ result[p] = Raised("api key not valid")
        /\ attempt[p] = 1
        /\ Len(api_keys) = 3

\* C4: an invocation whose attempts all failed with a quota-class failure
\* ends with the all-keys-failed error, after exactly N attempts, and the
\* error carries the failure of the last attempt.
C4_ExhaustedCarriesLast ==
    \A p \in Procs :
        (ChatDone(p) /\ result[p].kind = "raise"
           /\ (lastFail[p] = None \/ QuotaClass(lastFail[p])))
            => /\ result[p].val = "all api keys failed. last error: " \o lastFail[p]
               /\ Len(used[p]) = BoundN(p)
               /\ attempt[p] = BoundN(p)

\* C4 witness: three quota failures on a pool of three.
C4_Witness ==
    \E p \in Procs :
        /\ ChatDone(p)
        /\ result[p].kind = "raise"
        /\ QuotaClass(lastFail[p])
        /\ Len(used[p]) = 3
        /\ Len(api_keys) = 3

\* The step in which worker p's backend call succeeds.
SuccessStep(p) == InChat(p) /\ pc[p] = "call" /\ result'[p].kind = "return"

\* C5 as stated: a successful attempt ends the invocation with the reply,
\* rotates nothing, and leaves the active index on the credential that
\* succeeded.
C5_SuccessLeavesIndexOnKey ==
    [][\A p \in Procs :
          SuccessStep(p)
            => /\ pc'[p] = "done"
               /\ result'[p] = Returned(Reply)
               /\ current_index' = current_index
               /\ rotations'[p] = rotations[p]
               /\ api_keys[current_index' + 1].key = api_key[p]]_vars

\* C5 amended: a successful attempt ends the invocation with the reply and
\* leaves the active index unchanged; the index is on the credential that
\* succeeded when no other call overlapped the invocation.
C5_SuccessNoRotation ==
    [][\A p \in Procs :
          SuccessStep(p)
            => /\ pc'[p] = "done"
               /\ result'[p] = Returned(Reply)
               /\ current_index' = current_index
               /\ rotations'[p] = rotations[p]
               /\ attempt'[p] = attempt[p]
               /\ (solo[p] => api_keys[current_index' + 1].key = api_key[p])]_vars

\* C5 witness: a success on the second attempt, after one rotation.
C5_Witness ==
    \E p \in Procs :
        /\ ChatDone(p)
        /\ result[p] = Returned(Reply)
        /\ Len(used[p]) = 2
        /\ rotations[p] = 1

\* C2: an invocation issues at most N backend calls, N being the pool size
\* by default and the max_retries argument when given, and it terminates.
C2_BoundedAndTerminates ==
    /\ [](\A p \in Procs : InChat(p) => Len(used[p]) <= BoundN(p))
    /\ \A p \in Procs : (InChat(p) /\ pc[p] # "done") ~> (pc[p] = "done")

\* C2 witness: an override above the pool size was used up.
C2_Witness ==
    /\ ChatDone(1)
    /\ Len(api_keys) = 3
    /\ given[1] = Arg(4)
    /\ Len(used[1]) = 4

\* The credentials used are consecutive pool positions, cyclically.
Consecutive(p) ==
    \A i \in 1..(Len(used[p]) - 1) :
        KeyPos(used[p][i + 1]) = (KeyPos(used[p][i]) % Len(api_keys)) + 1

\* C6: with no concurrent invocation, when j credentials in a row failed on
\* quota and the next one succeeded, the reply is returned and exactly j
\* rotations were made, which leave the pool on the credential that
\* succeeded.
C6_QuotaThenSuccess ==
    \A p \in Procs :
        (ChatDone(p) /\ result[p].kind = "return")
            => /\ result[p].val = Reply
               /\ rotations[p] = Len(used[p]) - 1
               /\ Consecutive(p)
               /\ CurrentKey = used[p][Len(used[p])]

\* C6 witness: credential 1 of 3 failed on quota, credential 2 succeeded.
C6_Witness ==
    /\ ChatDone(1)
    /\ Len(api_keys) = 3
    /\ used[1] = <<"key_1", "key_2">>
    /\ result[1].kind = "return"
    /\ rotations[1] = 1

\* C7: n >= 1 consecutive rotate_key calls bring the pool back to the
\* credential that was current before the first of them.
C7_FullCycle ==
    \A p \in Procs :
        (op[p] = "rotate_key" /\ pc[p] = "done" /\ Len(api_keys) >= 1
           /\ rotations[p] = Len(api_keys))
            => /\ current_index = mark[p]
               /\ api_keys[current_index + 1] = api_keys[mark[p] + 1]

\* C7 witness: a run of three rotations that began at the last credential.
C7_Witness ==
    /\ op[1] = "rotate_key" /\ pc[1] = "done"
    /\ Len(api_keys) = 3
    /\ rotations[1] = 3
    /\ mark[1] = 2

\* C8 as stated: the active index is a valid position of the credential
\* list in every state of the running server.
C8_IndexInRange ==
    constructed => (0 <= current_index /\ current_index < Len(api_keys))

\* On a pool that is not empty the active index is a valid position under
\* every interleaving of the reads and writes of rotate_key.
IndexInRangeNonEmpty ==
    (constructed /\ Len(api_keys) >= 1)
        => (0 <= current_index /\ current_index < Len(api_keys))

\* C9 as stated: a constructed pool is never empty, and get_current_key and
\* rotate_key never fail on it.
C9_NeverEmptyNeverFails ==
    constructed
        => /\ Len(api_keys) >= 1
           /\ \A p \in Procs : result[p].kind # "raise"

\* The step in which a direct rotate_key call of worker p ends.
RotateEnds(p) == op[p] = "rotate_key" /\ pc[p] = "rot_write" /\ pc'[p] = "done"

\* C10 as stated: rotate_key sets the index to (old + 1) mod pool size and
\* returns the credential that is current after the advance.
C10_RotateReturnsNewKey ==
    [][\A p \in Procs :
          (RotateEnds(p) /\ Len(api_keys) >= 1)
            => /\ current_index' = (current_index + 1) % Len(api_keys)
               /\ result'[p] =
                    [kind |-> "return", val |-> api_keys[current_index' + 1].key]]_vars

\* C10 amended: rotate_key sets the index to (old + 1) mod pool size and
\* returns None; on an empty pool it raises ZeroDivisionError and leaves
\* the index alone.
C10_RotateAdvances ==
    [][\A p \in Procs :
          RotateEnds(p)
            => IF Len(api_keys) >= 1
                 THEN /\ current_index' = (current_index + 1) % Len(api_keys)
                      /\ result'[p] = [kind |-> "return", val |-> None]
                 ELSE /\ current_index' = current_index
                      /\ result'[p] =
                           [kind |-> "raise",
                            val |-> "integer division or modulo by zero"]]_vars

\* C10 witness: a rotation that wrapped from the last credential to the
\* first.
C10_Witness ==
    /\ op[1] = "rotate_key" /\ pc[1] = "done"
    /\ Len(api_keys) = 3
    /\ mark[1] = 2
    /\ rotations[1] = 1
    /\ current_index = 0
    /\ result[1].val = None

\* ---- voice-profile cache ------------------------------------------------
\* C11 as stated: under every interleaving, calls for one key that is not
\* cached are single-flight: no two workers are extracting the features of
\* the same key, caching on, at the same time.
C11_SingleFlight ==
    \A p, q \in Procs :
        (/\ p # q
         /\ gcl[p].pc = "extract" /\ gcl[p].use_cache
         /\ gcl[q].pc = "extract" /\ gcl[q].use_cache)
            => gcl[p].key # gcl[q].key

\* C14: with one caller at a time and caching on, the features of a key are
\* extracted and stored at most once, a call returns the stored pair, and
\* every cached key holds the pair of its own one extraction.
C14_SequentialCaching ==
    /\ \A k \in Keys : stored[k] <= 1
    /\ \A k \in DOMAIN speaker_cache :
           stored[k] = 1 /\ speaker_cache[k].src = k
    /\ (gcl[1].pc = "done" /\ gcl[1].use_cache /\ gcl[1].kind = "return")
           => gcl[1].val = speaker_cache[gcl[1].key]

\* C14 witness: both keys are cached after one extraction each and the last
\* call was answered from the cache.
C14_Witness ==
    /\ DOMAIN speaker_cache = Keys
    /\ \A k \in Keys : stored[k] = 1
    /\ gcl[1].pc = "done" /\ gcl[1].use_cache
    /\ gcl[1].kind = "return" /\ gcl[1].out = "none"

\* C15: with one caller at a time, an extraction that fails raises its
\* error and leaves the cache as it was, without an entry for the key of a
\* caching call; the next call for that key enters the engine again.
C15_FailureLeavesCache ==
    [][/\ (gcl[1].pc = "extract" /\ gcl'[1].out = "fail")
            => /\ gcl'[1].kind = "raise" /\ gcl'[1].err = ExtractError
               /\ speaker_cache' = speaker_cache
               /\ gcl[1].use_cache => gcl[1].key \notin DOMAIN speaker_cache'
       /\ (/\ gcl[1].pc = "done" /\ gcl[1].out = "fail" /\ gcl[1].use_cache
           /\ gcl'[1] # gcl[1] /\ gcl'[1].key = gcl[1].key)
            => gcl'[1].pc = "extract"]_vars

\* C15 witness: a caching call has failed while another key was cached, and
\* the failed key has no entry.
C15_Witness ==
    /\ gcl[1].pc = "done" /\ gcl[1].out = "fail" /\ gcl[1].use_cache
    /\ gcl[1].kind = "raise"
    /\ DOMAIN speaker_cache # {}
    /\ gcl[1].key \notin DOMAIN speaker_cache

\* ---- synthesis engine and framing ---------------------------------------
\* C12 as stated: in every reachable state at most one request worker is
\* inside a call of the shared engine (inference_stream, feature
\* extraction).
C12_EngineExclusive == Cardinality(engine) <= 1

\* The 44 bytes of a RIFF/WAVE header for 24 kHz, 16 bit, mono and a data
\* length of zero.
StreamHeader ==
    <<82, 73, 70, 70, 36, 0, 0, 0, 87, 65, 86, 69, 102, 109, 116, 32,
      16, 0, 0, 0, 1, 0, 1, 0, 192, 93, 0, 0, 128, 187, 0, 0, 2, 0, 16, 0,
      100, 97, 116, 97, 0, 0, 0, 0>>

\* The 16 bit PCM bytes of the engine's waveforms: 2.0 and -1.0 are full
\* scale positive (0x7FFF) and negative (0x8001), 0.0 is silence.
Pcm(wav) ==
    CASE wav = <<2, -1>> -> <<255, 127, 1, 128>>
      [] wav = <<0>> -> <<0, 0>>

\* header + c1 + ... + ck for the chunks the engine produced.
Framed(produced) ==
    StreamHeader \o Flatten([j \in 1..Len(produced) |-> Pcm(produced[j])])

\* C13 as stated: for every chunk sequence of the engine, the empty one
\* included, what a finished tts_stream has yielded is, concatenated, the
\* header followed by the chunks in order.
C13_FramedOutput ==
    \A p \in Procs :
        gen[p].pc = "end" => Flatten(gen[p].out) = Framed(gen[p].produced)

\* The same for the streams of at least one chunk, while a stream without
\* chunks yields nothing.
FramedNonEmpty ==
    \A p \in Procs :
        gen[p].pc = "end"
            => IF gen[p].produced = <<>>
                 THEN gen[p].out = <<>>
                 ELSE Flatten(gen[p].out) = Framed(gen[p].produced)

\* ---- /api/chat/stream ---------------------------------------------------
\* The text of a request is missing, or empty once trimmed.
Blank(data) ==
    \/ ~data.truthy
    \/ ~data.has_text
    \/ data.is_str /\ \A j \in 1..Len(data.text) : data.text[j] = " "

\* Nothing of the synthesis side has run for the request of worker p.
EngineUntouched(p) ==
    gen[p] = NoGen /\ gcl[p] = GclIdle /\ p \notin engine /\ req[p].sent = 0

\* C16: a request whose text is missing or blank is answered with 400, and
\* its worker has not entered chat_with_retry, made no attempt, rotated no
\* credential and not touched the engine.
C16_BlankTextRejected ==
    \A p \in Procs :
        (/\ req[p].route = ChatStream
         /\ req[p].stage \in {"generating", "failed"}
         /\ Blank(req[p].data))
            => /\ req[p].stage = "failed" /\ req[p].status = 400
               /\ op[p] = None /\ pc[p] = "idle"
               /\ used[p] = <<>> /\ rotations[p] = 0
               /\ EngineUntouched(p)

\* C16 witness: a text of blanks only was refused after the pool had been
\* rotated by an earlier request.
C16_Witness ==
    /\ req[1].route = ChatStream /\ req[1].status = 400
    /\ req[1].data.is_str /\ Len(req[1].data.text) = 2
    /\ current_index > 0

\* C17: once the handler has answered a request whose chat_with_retry
\* raised, the answer is a 500 carrying that error, no response stream
\* exists, nothing was sent and the engine was not touched.
C17_GenerationFailureIs500 ==
    \A p \in Procs :
        (/\ req[p].route = ChatStream
         /\ ChatDone(p) /\ result[p].kind = "raise"
         /\ req[p].stage # "generating")
            => /\ req[p].stage = "failed" /\ req[p].status = 500
               /\ req[p].error = result[p].val
               /\ req[p].x_estimated_chunks = ""
               /\ EngineUntouched(p)

\* C17 witness: every credential of a pool of three failed and the request
\* was answered with 500.
C17_Witness ==
    /\ req[1].route = ChatStream /\ req[1].status = 500
    /\ Len(used[1]) = 3 /\ result[1].kind = "raise"

\* The synthesis side has started for the request of worker p.
Started(p) ==
    \/ gen[p].pc \notin {"none", "new"}
    \/ gen[p].pulls > 0 \/ gen[p].out # <<>> \/ req[p].sent > 0
    \/ gcl[p] # GclIdle \/ p \in engine

\* Text generation has succeeded and status and headers are set.
Committed(p) ==
    /\ ChatDone(p) /\ result[p].kind = "return"
    /\ req[p].status = 200
    /\ req[p].x_ai_response # <<>> /\ req[p].x_ai_response[1] = result[p].val
    /\ req[p].x_estimated_chunks # ""

\* C18: nothing is asked of the engine and no body byte is yielded or
\* written before chat_with_retry has returned and status and headers are
\* set, and these do not change while the response is streamed.
C18_HeadersBeforeBody ==
    [][\A p \in Procs :
          /\ (req'[p].route = ChatStream /\ Started(p)') => Committed(p)'
          /\ (req[p].route = ChatStream /\ req[p].stage = "streaming")
                => /\ req'[p].status = req[p].status
                   /\ req'[p].x_ai_response = req[p].x_ai_response
                   /\ req'[p].x_estimated_chunks = req[p].x_estimated_chunks]_vars

\* C18 witness: the header and a chunk have been written to the client.
C18_Witness ==
    /\ req[1].route = ChatStream /\ req[1].stage = "streaming"
    /\ req[1].sent = 2

\* C19: a write to a client that has gone does not succeed; it closes the
\* generator without a pull, the cancelled session pulls nothing more, and
\* at most one pull was begun between the disconnect and the failed write.
C19_DisconnectStopsPulling ==
    [][\A p \in Procs :
          /\ req[p].client = "gone" => req'[p].sent <= req[p].sent
          /\ (req[p].stage = "streaming" /\ req'[p].stage = "cancelled")
                => /\ gen'[p].pc = "closed"
                   /\ gen'[p].pulls = gen[p].pulls
                   /\ p \notin engine'
          /\ (req[p].stage = "cancelled" /\ req'[p].stage = "cancelled")
                => gen'[p] = gen[p] /\ p \notin engine'
          /\ req'[p].late <= 1]_vars

\* C19 witness: a session was cancelled after one chunk, before the engine
\* had said that it has no more.
C19_Witness ==
    /\ req[1].route = ChatStream /\ req[1].stage = "cancelled"
    /\ gen[1].pc = "closed" /\ Len(gen[1].produced) = 1
    /\ req[1].sent = 1

\* floor(n / 10) and max(5, floor(n / 10)).
FloorTenth(n) == CHOOSE q \in 0..n : 10 * q <= n /\ n < 10 * (q + 1)
Expected(n) == IF FloorTenth(n) > 5 THEN FloorTenth(n) ELSE 5

\* C20: the estimate of a response is max(5, floor(len(reply) / 10)), is
\* sent as that number, is at least 5, and no shorter reply has a larger
\* estimate.
C20_EstimatedChunks ==
    \A p \in Procs :
        (req[p].route = ChatStream /\ req[p].status = 200)
            => /\ req[p].estimated_chunks = Expected(req[p].text_length)
               /\ req[p].x_estimated_chunks = ToString(req[p].estimated_chunks)
               /\ req[p].estimated_chunks >= 5
               /\ \A m \in 0..req[p].text_length :
                      Expected(m) <= req[p].estimated_chunks

\* C20 witness: a reply long enough for an estimate above the floor.
C20_Witness ==
    /\ req[1].route = ChatStream /\ req[1].status = 200
    /\ req[1].text_length >= 60 /\ req[1].estimated_chunks = 6

\* ---- the response stream ------------------------------------------------
\* Status and headers of the response of worker p.
Head200(r) == <<r.status, r.x_ai_response, r.x_estimated_chunks>>

\* C21: when the engine raises during a stream, nothing is yielded or
\* written by that step or after it, and status and headers stay as they
\* were committed.
C21_EngineFailureTruncates ==
    [][\A p \in Procs :
          /\ (req[p].stage = "streaming" /\ req'[p].stage = "aborted")
                => /\ gen'[p].out = gen[p].out
                   /\ req'[p].sent = req[p].sent
                   /\ Head200(req'[p]) = Head200(req[p])
                   /\ req'[p].status = 200
          /\ (req[p].stage = "aborted" /\ req'[p].stage = "aborted")
                => req'[p] = req[p] /\ gen'[p] = gen[p]]_vars

\* C21 witness: the engine failed on the second chunk after the header and
\* the first chunk had been written.
C21_Witness ==
    /\ req[1].route = ChatStream /\ req[1].stage = "aborted"
    /\ gen[1].pc = "raised" /\ req[1].sent = 2

\* C22 as stated: by the time the response of /api/chat/stream is
\* committed and streamed, the voice profile has been resolved.
C22_ProfileBeforeHeaders ==
    \A p \in Procs :
        (req[p].route = ChatStream /\ req[p].stage = "streaming")
            => gcl[p].pc = "done"

\* The audio chunks of worker p that the client write has taken: the
\* first written item is the header.
ChunksWritten(p) == IF req[p].sent = 0 THEN 0 ELSE req[p].sent - 1

\* C23: at most one produced chunk waits to be written, and a pull from
\* the engine begins only when every produced chunk has been written.
C23_PullDriven ==
    [][\A p \in Procs :
          /\ Len(gen'[p].produced) - ChunksWritten(p)' <= 1
          /\ gen'[p].pulls > gen[p].pulls
                => /\ req[p].sent = Len(gen[p].out)
                   /\ ChunksWritten(p) = Len(gen[p].produced)]_vars

\* C23 witness: the second chunk has been produced and waits for the write.
C23_Witness ==
    /\ req[1].route = ChatStream /\ req[1].stage = "streaming"
    /\ Len(gen[1].produced) = 2 /\ req[1].sent = 2 /\ Writable(1)

\* C25 as stated: a finished /api/chat/stream response has counted as
\* many chunks as the engine produced.
C25_CountEqualsChunks ==
    \A p \in Procs :
        (req[p].route = ChatStream /\ req[p].stage = "completed")
            => req[p].chunk_count = Len(gen[p].produced)

\* The count is the number of yielded items: one more than the chunks
\* whenever there is a chunk.
CountIsItems ==
    \A p \in Procs :
        (req[p].route = ChatStream /\ req[p].stage = "completed")
            => /\ req[p].chunk_count = Len(gen[p].out)
               /\ gen[p].produced # <<>>
                     => req[p].chunk_count = Len(gen[p].produced) + 1

\* ---- session life cycle -------------------------------------------------
\* The session of worker p is over: DONE, or FAILED before the response, in
\* mid-stream, or by the client's departure.
Over(p) == req[p].stage \in {"completed", "failed", "aborted", "cancelled"}

\* The changes of stage a session may make.
Forward(p) ==
    \/ /\ req[p].stage = "generating" /\ req'[p].stage = "streaming"
       /\ ChatDone(p) /\ result[p].kind = "return"
    \/ req[p].stage = "generating" /\ req'[p].stage = "failed"
    \/ /\ req[p].stage = "streaming" /\ req'[p].stage = "completed"
       /\ gen[p].pc = "infer" /\ gen'[p].pc = "end"
    \/ req[p].stage = "streaming" /\ req'[p].stage \in {"aborted", "cancelled"}

\* A new request takes the place of a session that is over.
NewSession(p) ==
    /\ req[p].stage = "idle" \/ Over(p)
    /\ req'[p].stage \in {"generating", "failed"}
    /\ req'[p].sent = 0 /\ gen'[p] = NoGen

\* C24: a session changes stage only forwards (text generation, then the
\* stream after a reply, then the end, DONE only when the engine's iterator
\* is exhausted), and a session whose client stays reaches its end.
C24_SessionLifeCycle ==
    /\ [][\A p \in Procs :
             req'[p].stage # req[p].stage => Forward(p) \/ NewSession(p)]_vars
    /\ (req[1].stage \in {"generating", "streaming"})
          ~> (Over(1) \/ req[1].client = "gone")

\* C24 witness: a session went through text generation and a stream of two
\* chunks to its normal end.
C24_Witness ==
    /\ req[1].route = ChatStream /\ req[1].stage = "completed"
    /\ Len(gen[1].produced) = 2 /\ req[1].client = "connected"

\* ---- rotation between attempts -----------------------------------------
\* Every attempt of the invocation of worker p but the first used another
\* credential than the attempt before it, whose quota failure it follows.
NextDiffers(p) ==
    \A i \in 1..(Len(used[p]) - 1) : used[p][i + 1] # used[p][i]

\* C26 as stated: on a pool of at least two credentials, under every
\* interleaving with other invocations, the attempt after a rotation uses
\* another credential than the one that just failed.
C26_NextAttemptDiffers ==
    \A p \in Procs :
        (InChat(p) /\ Len(api_keys) >= 2) => NextDiffers(p)

\* C26 amended: the same for an invocation that no other call overlaps.
C26_NextAttemptDiffersSolo ==
    \A p \in Procs :
        (InChat(p) /\ solo[p] /\ Len(api_keys) >= 2) => NextDiffers(p)

\* C26 witness: an undisturbed invocation on a pool of two made a second
\* attempt after a quota failure.
C26_Witness ==
    \E p \in Procs :
        /\ InChat(p) /\ solo[p]
        /\ Len(api_keys) = 2
        /\ Len(used[p]) = 2

\* The invocation of the worker, made without max_retries, has ended with
\* the error of line 100 after failing on every credential.
Exhausted ==
    /\ ChatDone(1) /\ given[1] = NoArg
    /\ result[1].kind = "raise"
    /\ Len(used[1]) = Len(api_keys)
    /\ lastFail[1] # None /\ QuotaClass(lastFail[1])

\* C27: with one caller and the default bound, an invocation that ran out
\* of credentials made as many rotations as the pool has credentials and
\* left current_index on the credential of its first attempt, where it
\* was when the invocation began.
C27_IndexRestored ==
    (Exhausted /\ Len(api_keys) >= 1)
        => /\ rotations[1] = Len(api_keys)
           /\ current_index + 1 = KeyPos(used[1][1])

\* C27 witness: a pool of three was exhausted by an invocation that began
\* on the second credential.
C27_Witness ==
    /\ Exhausted
    /\ Len(api_keys) = 3
    /\ used[1][1] = Credential(2).key
    /\ current_index = 1
====
